---- MODULE Spec2Model ----
(***************************************************************************)
(* AHttpService (UE4 HTTP tutorial): request construction, header          *)
(* injection, dispatch, response validation, struct <-> JSON marshaling    *)
(* and the Login / LoginResponse flow that replaces AuthorizationHash.     *)
(***************************************************************************)
EXTENDS Integers, Sequences, FiniteSets, TLC

\* ------------------------------------------------------------------ bounds

\* Number of Login calls (requests dispatched) explored.
MaxRequests == 2

\* ------------------------------------------------- configuration (header)

ApiBaseUrl == "http://murk.dev/api/"
AuthorizationHeader == "Authorization"
InitialAuthorizationHash == "asdfasdf"

\* ----------------------------------------------------- JSON text (Codec)

\* A JSON text is modelled by whether it parses as a JSON object and, if
\* so, its fields in order; a field is a key with a string or number value.
StrField(k, v) == [k |-> k, t |-> "string", s |-> v, n |-> 0]
NumField(k, v) == [k |-> k, t |-> "number", s |-> "", n |-> v]
JsonObject(fields) == [wellFormed |-> TRUE, fields |-> fields]
NotJson == [wellFormed |-> FALSE, fields |-> <<>>]

HasField(json, k) == \E i \in 1..Len(json.fields) : json.fields[i].k = k
Field(json, k) ==
    json.fields[CHOOSE i \in 1..Len(json.fields) : json.fields[i].k = k]

\* FRequest_Login / FResponse_Login
FRequest_Login(email, password) == [email |-> email, password |-> password]

\* FResponse_Login() {} leaves `int id` uninitialised; the FString members
\* are default-constructed empty.
FResponse_Login(garbage) == [id |-> garbage, name |-> "", hash |-> ""]

\* StructType::StaticStruct(): the UPROPERTY names of the struct, in
\* declaration order (FRequest_Login or FResponse_Login).
StaticStruct(Struct) ==
    IF "email" \in DOMAIN Struct THEN << "email", "password" >>
    ELSE << "id", "name", "hash" >>

\* The declared type of a UPROPERTY: id is an int, the others are FStrings.
PropertyType(name) == IF name = "id" THEN "int" ELSE "FString"

\* FJsonObjectConverter::UStructToJsonObjectString: one JSON field for each
\* property (flags 0, 0: none skipped), an int as a number and an FString
\* as a string.  The key is the property name with its first letter in
\* lower case, which the names of both structs already are.
UStructToJsonObjectString(Properties, Struct) ==
    JsonObject([i \in 1..Len(Properties) |->
        IF PropertyType(Properties[i]) = "int"
        THEN NumField(Properties[i], Struct[Properties[i]])
        ELSE StrField(Properties[i], Struct[Properties[i]])])

\* Mutant: the last property of the struct is not written.
GetJsonStringFromStruct_DropLast(FilledStruct) ==
    LET Properties == StaticStruct(FilledStruct)
    IN  UStructToJsonObjectString(SubSeq(Properties, 1, Len(Properties) - 1),
                                  FilledStruct)

GetJsonStringFromStruct(FilledStruct) ==
    UStructToJsonObjectString(StaticStruct(FilledStruct), FilledStruct)

\* FJsonObjectConverter::JsonObjectStringToUStruct<FResponse_Login>: a text
\* that does not parse leaves StructOutput untouched; otherwise each
\* property present in the object is written, absent ones are left alone,
\* and fields that are no property of the struct are ignored.
JsonObjectStringToUStruct(JsonString, StructOutput) ==
    IF ~JsonString.wellFormed THEN StructOutput
    ELSE [ p \in DOMAIN StructOutput |->
             IF ~HasField(JsonString, p) THEN StructOutput[p]
             ELSE IF PropertyType(p) = "int"
             THEN Field(JsonString, p).n
             ELSE Field(JsonString, p).s ]

\* Response->GetContentAsString()
GetContentAsString(Response) == Response.content

\* Mutant: the parse fills the unused local StructData, not StructOutput.
GetStructFromJsonString_IntoLocal(Response, StructOutput) == StructOutput

GetStructFromJsonString(Response, StructOutput) ==
    JsonObjectStringToUStruct(GetContentAsString(Response), StructOutput)

\* ------------------------------------------------------- RequestBuilder

\* Http->CreateRequest(): a fresh request, nothing set, no delegate bound.
CreateRequest ==
    [url |-> "", verb |-> "GET", headers |-> {}, content |-> NotJson,
     bound |-> "none"]

\* IHttpRequest::SetHeader replaces the value of an existing header name.
SetHeader(Request, name, value) ==
    [Request EXCEPT !.headers =
        {h \in @ : h[1] # name} \cup {<<name, value>>}]

\* Mutant: the Authorization header is set from the configured initial value.
SetRequestHeaders_InitialHash(Request, hash) ==
    LET r1 == SetHeader(Request, "User-Agent", "X-UnrealEngine-Agent")
        r2 == SetHeader(r1, "Content-Type", "application/json")
        r3 == SetHeader(r2, "Accepts", "application/json")
    IN  SetHeader(r3, AuthorizationHeader, InitialAuthorizationHash)

SetRequestHeaders(Request, hash) ==
    LET r1 == SetHeader(Request, "User-Agent", "X-UnrealEngine-Agent")
        r2 == SetHeader(r1, "Content-Type", "application/json")
        r3 == SetHeader(r2, "Accepts", "application/json")
    IN  SetHeader(r3, AuthorizationHeader, hash)

RequestWithRoute(Subroute, hash) ==
    LET Request == [CreateRequest EXCEPT !.url = ApiBaseUrl \o Subroute]
    IN  SetRequestHeaders(Request, hash)

GetRequest(Subroute, hash) ==
    [RequestWithRoute(Subroute, hash) EXCEPT !.verb = "GET"]

PostRequest(Subroute, ContentJsonString, hash) ==
    [RequestWithRoute(Subroute, hash) EXCEPT
        !.verb = "POST", !.content = ContentJsonString]

\* Request->OnProcessRequestComplete().BindUObject(this, &LoginResponse)
BindUObject(Request, handler) == [Request EXCEPT !.bound = handler]

\* ----------------------------------------------------- ResponseValidator

\* EHttpResponseCodes::Ok and ::PartialContent, the ends of IsOk's range.
HttpOk == 200
HttpPartialContent == 206

\* Mutant: only 200 counts as OK.
IsOk_Only200(StatusCode) == StatusCode = HttpOk

\* EHttpResponseCodes::IsOk(StatusCode)
IsOk(StatusCode) == StatusCode >= HttpOk /\ StatusCode <= HttpPartialContent

\* FHttpResponsePtr: a null pointer, or a response with a code and a body.
NullResponse == [present |-> FALSE, code |-> 0, content |-> NotJson]
HttpResponse(code, content) ==
    [present |-> TRUE, code |-> code, content |-> content]
IsValid(Response) == Response.present
GetResponseCode(Response) == Response.code

CodeLog(code) == [msg |-> "Http Response returned error code", n |-> code, s |-> ""]
IdLog(id) == [msg |-> "Id is", n |-> id, s |-> ""]
NameLog(name) == [msg |-> "Name is", n |-> 0, s |-> name]

\* Mutant: the status code is examined before the transport flag.
ResponseIsValid_CodeFirst(Response, bWasSuccessful) ==
    IF IsOk(GetResponseCode(Response))
    THEN [ret |-> TRUE, codeReads |-> 1, log |-> <<>>]
    ELSE IF ~bWasSuccessful \/ ~IsValid(Response)
    THEN [ret |-> FALSE, codeReads |-> 1, log |-> <<>>]
    ELSE [ret |-> FALSE, codeReads |-> 2,
          log |-> << CodeLog(GetResponseCode(Response)) >>]

\* ret: the returned bool; codeReads: calls of GetResponseCode made;
\* log: the UE_LOG lines written.
ResponseIsValid(Response, bWasSuccessful) ==
    IF ~bWasSuccessful \/ ~IsValid(Response)
    THEN [ret |-> FALSE, codeReads |-> 0, log |-> <<>>]
    ELSE IF IsOk(GetResponseCode(Response))
    THEN [ret |-> TRUE, codeReads |-> 1, log |-> <<>>]
    ELSE [ret |-> FALSE, codeReads |-> 2,
          log |-> << CodeLog(GetResponseCode(Response)) >>]

\* ------------------------------------------------------- CredentialStore

SetAuthorizationHash(Hash) == Hash

\* -------------------------------------------------- Login response handler

\* Mutant: the handler does not return on an invalid response.
LoginResponse_NoEarlyReturn(hashBefore, Response, bWasSuccessful, garbage) ==
    LET v == ResponseIsValid(Response, bWasSuccessful)
        Decoded == GetStructFromJsonString(Response, FResponse_Login(garbage))
    IN  [hash |-> SetAuthorizationHash(Decoded.hash), valid |-> v.ret,
         steps |-> <<"ResponseIsValid", "GetStructFromJsonString",
                     "SetAuthorizationHash", "UE_LOG">>,
         codeReads |-> v.codeReads,
         log |-> v.log \o << IdLog(Decoded.id), NameLog(Decoded.name) >>,
         outcome |-> "Succeeded"]

\* Mutant: the body is decoded before the response is validated.
LoginResponse_DecodeFirst(hashBefore, Response, bWasSuccessful, garbage) ==
    LET Decoded == GetStructFromJsonString(Response, FResponse_Login(garbage))
        v == ResponseIsValid(Response, bWasSuccessful)
    IN  IF ~v.ret
        THEN [hash |-> hashBefore, valid |-> v.ret,
              steps |-> <<"GetStructFromJsonString", "ResponseIsValid">>,
              codeReads |-> v.codeReads, log |-> v.log, outcome |-> "Failed"]
        ELSE [hash |-> SetAuthorizationHash(Decoded.hash), valid |-> v.ret,
              steps |-> <<"GetStructFromJsonString", "ResponseIsValid",
                          "SetAuthorizationHash", "UE_LOG">>,
              codeReads |-> v.codeReads,
              log |-> v.log \o << IdLog(Decoded.id), NameLog(Decoded.name) >>,
              outcome |-> "Succeeded"]

\* Mutant: a failed login clears the credential.
LoginResponse_ClearOnFailure(hashBefore, Response, bWasSuccessful, garbage) ==
    LET v == ResponseIsValid(Response, bWasSuccessful)
    IN  IF ~v.ret
        THEN [hash |-> SetAuthorizationHash(""), valid |-> v.ret,
              steps |-> <<"ResponseIsValid", "SetAuthorizationHash">>,
              codeReads |-> v.codeReads, log |-> v.log, outcome |-> "Failed"]
        ELSE LET Decoded == GetStructFromJsonString(Response, FResponse_Login(garbage))
             IN  [hash |-> SetAuthorizationHash(Decoded.hash), valid |-> v.ret,
                  steps |-> <<"ResponseIsValid", "GetStructFromJsonString",
                              "SetAuthorizationHash", "UE_LOG">>,
                  codeReads |-> v.codeReads,
                  log |-> v.log \o << IdLog(Decoded.id), NameLog(Decoded.name) >>,
                  outcome |-> "Succeeded"]

\* Mutant: the credential is set only while it still is the initial one.
LoginResponse_FirstWins(hashBefore, Response, bWasSuccessful, garbage) ==
    LET v == ResponseIsValid(Response, bWasSuccessful)
    IN  IF ~v.ret
        THEN [hash |-> hashBefore, valid |-> v.ret,
              steps |-> <<"ResponseIsValid">>,
              codeReads |-> v.codeReads, log |-> v.log, outcome |-> "Failed"]
        ELSE LET Decoded == GetStructFromJsonString(Response, FResponse_Login(garbage))
             IN  [hash |-> IF hashBefore = InitialAuthorizationHash
                           THEN SetAuthorizationHash(Decoded.hash)
                           ELSE hashBefore,
                  valid |-> v.ret,
                  steps |-> <<"ResponseIsValid", "GetStructFromJsonString",
                              "SetAuthorizationHash", "UE_LOG">>,
                  codeReads |-> v.codeReads,
                  log |-> v.log \o << IdLog(Decoded.id), NameLog(Decoded.name) >>,
                  outcome |-> "Succeeded"]

\* Mutant: an empty decoded hash does not replace the credential.
LoginResponse_KeepOnEmptyHash(hashBefore, Response, bWasSuccessful, garbage) ==
    LET v == ResponseIsValid(Response, bWasSuccessful)
    IN  IF ~v.ret
        THEN [hash |-> hashBefore, valid |-> v.ret,
              steps |-> <<"ResponseIsValid">>,
              codeReads |-> v.codeReads, log |-> v.log, outcome |-> "Failed"]
        ELSE LET Decoded == GetStructFromJsonString(Response, FResponse_Login(garbage))
             IN  IF Decoded.hash = ""
                 THEN [hash |-> hashBefore, valid |-> v.ret,
                       steps |-> <<"ResponseIsValid", "GetStructFromJsonString",
                                   "UE_LOG">>,
                       codeReads |-> v.codeReads,
                       log |-> v.log \o << IdLog(Decoded.id), NameLog(Decoded.name) >>,
                       outcome |-> "Succeeded"]
                 ELSE [hash |-> SetAuthorizationHash(Decoded.hash), valid |-> v.ret,
                       steps |-> <<"ResponseIsValid", "GetStructFromJsonString",
                                   "SetAuthorizationHash", "UE_LOG">>,
                       codeReads |-> v.codeReads,
                       log |-> v.log \o << IdLog(Decoded.id), NameLog(Decoded.name) >>,
                       outcome |-> "Succeeded"]

\* AHttpService::LoginResponse run on the credential held when the delegate
\* fires.  hash: AuthorizationHash when the handler returns; steps: the
\* calls made, in order; log: the UE_LOG lines; outcome: Failed for the
\* early return, Succeeded when the handler runs to its end.
LoginResponse(hashBefore, Response, bWasSuccessful, garbage) ==
    LET v == ResponseIsValid(Response, bWasSuccessful)
    IN  IF ~v.ret
        THEN [hash |-> hashBefore, valid |-> v.ret,
              steps |-> <<"ResponseIsValid">>,
              codeReads |-> v.codeReads, log |-> v.log, outcome |-> "Failed"]
        ELSE LET Decoded == GetStructFromJsonString(Response, FResponse_Login(garbage))
             IN  [hash |-> SetAuthorizationHash(Decoded.hash), valid |-> v.ret,
                  steps |-> <<"ResponseIsValid", "GetStructFromJsonString",
                              "SetAuthorizationHash", "UE_LOG">>,
                  codeReads |-> v.codeReads,
                  log |-> v.log \o << IdLog(Decoded.id), NameLog(Decoded.name) >>,
                  outcome |-> "Succeeded"]

\* ------------------------------------------------------------ inputs

\* Status codes a completion may carry: both ends of IsOk's range, their
\* neighbours, the end of the 2xx class, its neighbour and an error code.
Codes == {199, 200, 206, 207, 299, 300, 500}

BodyFull == JsonObject(<< NumField("id", 1), StrField("name", "Batman"),
                          StrField("hash", "abcd-1234") >>)
BodyHashExtra == JsonObject(<< StrField("hash", "h2"), StrField("extra", "x") >>)
BodyNoHash == JsonObject(<< NumField("id", 1), StrField("name", "Batman") >>)
Bodies == {BodyFull, BodyHashExtra, BodyNoHash, NotJson}

Responses == {NullResponse} \cup {HttpResponse(c, b) : c \in Codes, b \in Bodies}

\* Values the uninitialised FResponse_Login::id may hold.
GarbageInts == {0, -1}

\* Credentials passed to Login by callers other than BeginPlay.
CallerCredentials == {FRequest_Login("a@b.com", "pw")}

Routes == {"user/profile"}

\* -------------------------------------------------------------- state

VARIABLES
    AuthorizationHash,  \* AHttpService::AuthorizationHash
    Http,               \* AHttpService::Http: "unset" until BeginPlay sets it
    hasAuthority,       \* what HasAuthority() returns for this actor
    begun,              \* BeginPlay has run
    crashed,            \* a call through the unset Http pointer was made
    requests,           \* the requests Login built, in dispatch order
    completions,        \* the handler invocations so far, in order
    last,               \* the most recent handler invocation
    lastBuilt,          \* the request GetRequest / PostRequest returned last
    lastOp,             \* the operation that produced this state
    codec               \* a struct taken through the two codec templates

vars == << AuthorizationHash, Http, hasAuthority, begun, crashed, requests,
           completions, last, lastBuilt, lastOp, codec >>

\* The credentials BeginPlay passes to Login.
BeginPlayCredentials == FRequest_Login("asdf@asdf.com", "asdfasdf")

\* No struct is being converted.
CodecIdle ==
    [phase |-> "idle", P |-> BeginPlayCredentials, text |-> NotJson,
     out |-> BeginPlayCredentials]

NoInvocation ==
    [id |-> 0, bWasSuccessful |-> FALSE, Response |-> NullResponse,
     before |-> InitialAuthorizationHash, valid |-> FALSE, steps |-> <<>>,
     codeReads |-> 0,
     log |-> <<>>, outcome |-> "none"]

NothingBuilt == [by |-> "none", req |-> CreateRequest, hashAtCall |-> ""]

Init ==
    /\ AuthorizationHash = InitialAuthorizationHash
    /\ Http = "unset"
    /\ hasAuthority \in BOOLEAN
    /\ begun = FALSE
    /\ crashed = FALSE
    /\ requests = <<>>
    /\ completions = <<>>
    /\ last = NoInvocation
    /\ lastBuilt = NothingBuilt
    /\ lastOp = "Init"
    /\ codec = CodecIdle

\* ------------------------------------------------------------ dispatch

\* Request->ProcessRequest(): hands the request to the transport, which
\* owes one completion for each call.
\* sent counts the calls; submitted is the request as the transport got it.
ProcessRequest(entry) ==
    [entry EXCEPT !.outstanding = @ + 1, !.status = "Sent",
                  !.sent = @ + 1, !.submitted = entry.req,
                  !.trace = Append(@, "Sent")]

\* Mutant: the request is submitted twice.
Send_Twice(entry) == ProcessRequest(ProcessRequest(entry))

Send(entry) == ProcessRequest(entry)

\* A request Login has built and not yet submitted: the flow came from
\* Idle and is Building.
NewEntry(Request, LoginCredentials) ==
    [req |-> Request, hashAtBuild |-> AuthorizationHash,
     credentials |-> LoginCredentials,
     status |-> "Building", outstanding |-> 0, calls |-> 0, sent |-> 0,
     submitted |-> CreateRequest, trace |-> << "Idle", "Building" >>,
     sentAfter |-> Len(completions)]

\* Mutant: the delegate is bound after the request was submitted.
LoginBody_BindAfterSend(LoginCredentials) ==
    LET ContentJsonString == GetJsonStringFromStruct(LoginCredentials)
        Built == PostRequest("user/login", ContentJsonString, AuthorizationHash)
        sentEntry == Send(NewEntry(Built, LoginCredentials))
    IN  /\ requests' = Append(requests,
               [sentEntry EXCEPT !.req = BindUObject(@, "LoginResponse")])
        /\ lastBuilt' = [by |-> "PostRequest", req |-> Built,
                         hashAtCall |-> AuthorizationHash]

\* The body of AHttpService::Login once Http is set.
LoginBody(LoginCredentials) ==
    LET ContentJsonString == GetJsonStringFromStruct(LoginCredentials)
        Built == PostRequest("user/login", ContentJsonString, AuthorizationHash)
        Request == BindUObject(Built, "LoginResponse")
        entry == NewEntry(Request, LoginCredentials)
    IN  /\ requests' = Append(requests, Send(entry))
        /\ lastBuilt' = [by |-> "PostRequest", req |-> Built,
                         hashAtCall |-> AuthorizationHash]

\* Http->CreateRequest() through the pointer BeginPlay never set.
UnsetHttpCall ==
    /\ crashed' = TRUE
    /\ UNCHANGED << AuthorizationHash, Http, hasAuthority, begun, requests,
                    completions, last, lastBuilt >>

\* Mutant: BeginPlay does not look at HasAuthority().
BeginPlay_NoAuthorityCheck ==
    /\ ~crashed
    /\ UNCHANGED codec /\ ~begun
    /\ begun' = TRUE
    /\ lastOp' = "BeginPlay"
    /\ Http' = "module"
    /\ LoginBody(BeginPlayCredentials)
    /\ UNCHANGED << AuthorizationHash, hasAuthority, crashed, completions, last >>

BeginPlay ==
    /\ ~crashed
    /\ UNCHANGED codec /\ ~begun
    /\ begun' = TRUE
    /\ lastOp' = "BeginPlay"
    /\ IF ~hasAuthority
       THEN UNCHANGED << AuthorizationHash, Http, hasAuthority, crashed,
                         requests, completions, last, lastBuilt >>
       ELSE /\ Http' = "module"
            /\ LoginBody(BeginPlayCredentials)
            /\ UNCHANGED << AuthorizationHash, hasAuthority, crashed,
                            completions, last >>

Login ==
    /\ ~crashed
    /\ UNCHANGED codec
    /\ Len(requests) < MaxRequests
    /\ lastOp' = "Login"
    /\ \E LoginCredentials \in CallerCredentials :
         IF Http = "unset"
         THEN UnsetHttpCall
         ELSE /\ LoginBody(LoginCredentials)
              /\ UNCHANGED << AuthorizationHash, Http, hasAuthority, begun,
                              crashed, completions, last >>

CallGetRequest ==
    /\ ~crashed
    /\ UNCHANGED codec
    /\ lastOp' = "GetRequest"
    /\ \E Subroute \in Routes :
         IF Http = "unset"
         THEN UnsetHttpCall
         ELSE /\ lastBuilt' = [by |-> "GetRequest",
                               req |-> GetRequest(Subroute, AuthorizationHash),
                               hashAtCall |-> AuthorizationHash]
              /\ UNCHANGED << AuthorizationHash, Http, hasAuthority, begun,
                              crashed, requests, completions, last >>

\* What is kept of a delivered completion: the request it belongs to,
\* whether the transport succeeded with an OK response, and in that case the
\* body delivered.
Completion(i, Response, bWasSuccessful) ==
    LET ok == bWasSuccessful /\ IsValid(Response)
                  /\ IsOk(GetResponseCode(Response))
    IN  [id |-> i, valid |-> ok,
         content |-> IF ok THEN GetContentAsString(Response) ELSE NotJson]

\* The flow states a run of LoginResponse passes through: Validating when
\* it starts with the validity check, then its outcome.
FlowStates(r) ==
    (IF r.steps[1] = "ResponseIsValid" THEN << "Validating" >> ELSE << >>)
        \o << r.outcome >>

\* Mutant: requests still in flight pick up the credential the handler set.
RequestsAfterLoginResponse_Rewrite(reqs, i, r) ==
    [k \in 1..Len(reqs) |->
        IF k = i
        THEN [reqs[k] EXCEPT !.outstanding = @ - 1, !.calls = @ + 1,
                             !.status = r.outcome,
                             !.trace = @ \o FlowStates(r)]
        ELSE IF reqs[k].outstanding > 0
        THEN [reqs[k] EXCEPT !.req = SetHeader(@, AuthorizationHeader, r.hash)]
        ELSE reqs[k]]

\* Mutant: a failed login is submitted again.
RequestsAfterLoginResponse_Retry(reqs, i, r) ==
    [reqs EXCEPT ![i] =
        LET done == [@ EXCEPT !.outstanding = @ - 1, !.calls = @ + 1,
                              !.status = r.outcome,
                              !.trace = @ \o FlowStates(r)]
        IN  IF r.outcome = "Failed" THEN ProcessRequest(done) ELSE done]

\* The requests once the delegate of request i has run LoginResponse with
\* result r: the handler never touches its Request parameter nor any other
\* request; request i has one completion less outstanding.
RequestsAfterLoginResponse(reqs, i, r) ==
    [reqs EXCEPT ![i].outstanding = @ - 1,
                 ![i].calls = @ + 1,
                 ![i].status = r.outcome,
                 ![i].trace = @ \o FlowStates(r)]

\* The local FResponse_Login of line 110 comes into being only past the
\* early return of line 108: only then does its uninitialised id hold one
\* of the garbage values.
LocalGarbage(Response, bWasSuccessful) ==
    IF ResponseIsValid(Response, bWasSuccessful).ret THEN GarbageInts ELSE {0}

\* The transport finishes request i and fires its completion delegate.
Complete ==
    /\ ~crashed
    /\ UNCHANGED codec
    /\ \E i \in 1..Len(requests) :
         /\ requests[i].outstanding > 0
         /\ requests[i].req.bound = "LoginResponse"
         /\ \E bWasSuccessful \in BOOLEAN, Response \in Responses :
            \E garbage \in LocalGarbage(Response, bWasSuccessful) :
            LET r == LoginResponse(AuthorizationHash, Response,
                                   bWasSuccessful, garbage)
            IN  /\ AuthorizationHash' = r.hash
                /\ requests' = RequestsAfterLoginResponse(requests, i, r)
                /\ completions' = Append(completions,
                       Completion(i, Response, bWasSuccessful))
                /\ last' = [id |-> i, bWasSuccessful |-> bWasSuccessful,
                            Response |-> Response,
                            before |-> AuthorizationHash, valid |-> r.valid,
                            steps |-> r.steps,
                            codeReads |-> r.codeReads, log |-> r.log,
                            outcome |-> r.outcome]
    /\ lastOp' = "LoginResponse"
    /\ UNCHANGED << Http, hasAuthority, begun, crashed, lastBuilt >>

\* The request is dropped before its completion is delivered.
Abandon ==
    /\ ~crashed
    /\ UNCHANGED codec
    /\ \E i \in 1..Len(requests) :
         /\ requests[i].outstanding > 0
         /\ requests' = [requests EXCEPT
                ![i].outstanding = @ - 1, ![i].status = "Abandoned"]
    /\ lastOp' = "Abandon"
    /\ UNCHANGED << AuthorizationHash, Http, hasAuthority, begun, crashed,
                    completions, last, lastBuilt >>

Next == BeginPlay \/ Login \/ CallGetRequest \/ Complete \/ Abandon

Spec == Init /\ [][Next]_vars

\* ------------------------------------------------- the codec on its own

\* Structs handed to GetJsonStringFromStruct: every field present and of
\* its declared type.
CodecInts == {-1, 0, 1, 2147483647}
CodecNames == {"", "Batman", "Robin"}
CodecHashes == {"", "abcd-1234", "h2"}
CodecEmails == {"", "a@b.com", "asdf@asdf.com"}
CodecPasswords == {"", "pw", "asdfasdf"}

CodecStructs ==
    {[id |-> i, name |-> n, hash |-> h] :
        i \in CodecInts, n \in CodecNames, h \in CodecHashes}
    \cup {FRequest_Login(e, pw) : e \in CodecEmails, pw \in CodecPasswords}

\* A default-constructed struct of the type of P, as declared by the caller
\* of GetStructFromJsonString.
DefaultConstructed(P, garbage) ==
    IF "email" \in DOMAIN P THEN FRequest_Login("", "")
    ELSE FResponse_Login(garbage)

InitCodec ==
    /\ AuthorizationHash = InitialAuthorizationHash
    /\ Http = "unset"
    /\ hasAuthority = FALSE
    /\ begun = FALSE
    /\ crashed = FALSE
    /\ requests = <<>>
    /\ completions = <<>>
    /\ last = NoInvocation
    /\ lastBuilt = NothingBuilt
    /\ lastOp = "Init"
    /\ \E P \in CodecStructs :
          codec = [phase |-> "struct", P |-> P, text |-> NotJson, out |-> P]

\* GetJsonStringFromStruct(P, StringOutput)
CodecEncode ==
    /\ codec.phase = "struct"
    /\ codec' = [codec EXCEPT !.phase = "encoded",
                              !.text = GetJsonStringFromStruct(codec.P)]
    /\ UNCHANGED << AuthorizationHash, Http, hasAuthority, begun, crashed,
                    requests, completions, last, lastBuilt, lastOp >>

\* GetStructFromJsonString(Response, StructOutput) on a response whose
\* content is the encoded text.
CodecDecode ==
    /\ codec.phase = "encoded"
    /\ \E garbage \in GarbageInts :
          codec' = [codec EXCEPT
              !.phase = "decoded",
              !.out = GetStructFromJsonString(
                          HttpResponse(HttpOk, codec.text),
                          DefaultConstructed(codec.P, garbage))]
    /\ UNCHANGED << AuthorizationHash, Http, hasAuthority, begun, crashed,
                    requests, completions, last, lastBuilt, lastOp >>

NextCodec == CodecEncode \/ CodecDecode

SpecCodec == InitCodec /\ [][NextCodec]_vars

\* ------------------------------------------------------------ properties

HeaderValues(Request, name) == {h[2] : h \in {x \in Request.headers : x[1] = name}}

\* The hash field a body decodes to (hash is an FString: empty by default).
DecodedHash(content) == JsonObjectStringToUStruct(content, FResponse_Login(0)).hash

ValidPositions == {k \in 1..Len(completions) : completions[k].valid}
LastValidPosition == CHOOSE k \in ValidPositions : \A j \in ValidPositions : j <= k

\* The most recent handler invocation got a completion that is a transport
\* failure, has no response, or has a status code that is not OK.
LastIsInvalidCompletion ==
    /\ last.id # 0
    /\ \/ ~last.bWasSuccessful
       \/ ~last.Response.present
       \/ ~IsOk(last.Response.code)

\* C1: a login completion that is a transport failure, has no response or
\* has a non-OK status code makes LoginResponse return right after the
\* validity check, with AuthorizationHash as it was before the handler, and
\* the flow ends Failed.
C1_InvalidCompletionKeepsCredential ==
    LastIsInvalidCompletion =>
        /\ last.steps = <<"ResponseIsValid">>
        /\ AuthorizationHash = last.before
        /\ last.outcome = "Failed"
        /\ requests[last.id].status = "Failed"

C1_Witness ==
    /\ last.id # 0
    /\ last.bWasSuccessful /\ last.Response.present
    /\ last.Response.code = 500
    /\ last.Response.content = BodyHashExtra
    /\ last.before = "abcd-1234"
    /\ AuthorizationHash = "abcd-1234"
    /\ requests[last.id].status = "Failed"

\* C2: the credential is the configured initial value while no completion
\* has been valid, and otherwise the hash decoded from the body of the most
\* recent valid completion.
C2_CredentialIsLastValidHash ==
    AuthorizationHash =
        IF ValidPositions = {} THEN InitialAuthorizationHash
        ELSE DecodedHash(completions[LastValidPosition].content)

C2_Witness ==
    /\ Len(completions) = 2
    /\ completions[1].valid /\ completions[1].content = BodyFull
    /\ ~completions[2].valid
    /\ AuthorizationHash = "abcd-1234"

\* C3: in every handler invocation the validity check is the first step,
\* and the body is decoded only after that check returned valid: never for
\* a transport failure, a missing response or a status code outside 2xx.
C3_DecodeOnlyAfterValid ==
    last.id # 0 =>
        /\ last.steps[1] = "ResponseIsValid"
        /\ (\E k \in 1..Len(last.steps) : last.steps[k] = "GetStructFromJsonString")
             => /\ last.valid
                /\ last.bWasSuccessful
                /\ last.Response.present
                /\ last.Response.code \in 200..299

C3_Witness ==
    /\ last.id # 0
    /\ ~last.bWasSuccessful
    /\ last.Response = HttpResponse(200, BodyFull)
    /\ last.steps = <<"ResponseIsValid">>
    /\ AuthorizationHash = InitialAuthorizationHash

C5_TransportFailureInvalid ==
    (last.id # 0 /\ (~last.bWasSuccessful \/ ~last.Response.present)) =>
        /\ ~last.valid
        /\ last.codeReads = 0
        /\ last.log = <<>>
        /\ last.outcome = "Failed"

C5_Witness ==
    /\ last.id # 0
    /\ ~last.bWasSuccessful
    /\ last.Response = HttpResponse(206, BodyHashExtra)
    /\ ~last.valid
    /\ last.codeReads = 0

\* The request carries exactly the four headers, Authorization being hash.
FourHeaders(Request, hash) ==
    /\ {h[1] : h \in Request.headers} =
           {"User-Agent", "Content-Type", "Accepts", AuthorizationHeader}
    /\ HeaderValues(Request, "User-Agent") = {"X-UnrealEngine-Agent"}
    /\ HeaderValues(Request, "Content-Type") = {"application/json"}
    /\ HeaderValues(Request, "Accepts") = {"application/json"}
    /\ HeaderValues(Request, AuthorizationHeader) = {hash}

\* C6: every request GetRequest or PostRequest returned carries the four
\* headers, and its Authorization value is the credential held when it was
\* built.
C6_BuiltRequestsCarryHeaders ==
    /\ lastBuilt.by # "none" => FourHeaders(lastBuilt.req, lastBuilt.hashAtCall)
    /\ \A i \in 1..Len(requests) :
           /\ requests[i].req.verb = "POST"
           /\ FourHeaders(requests[i].req, requests[i].hashAtBuild)

C6_Witness ==
    /\ lastBuilt.by = "GetRequest"
    /\ lastBuilt.req.verb = "GET"
    /\ lastBuilt.hashAtCall = "h2"
    /\ AuthorizationHash = "h2"
    /\ <<AuthorizationHeader, "h2">> \in lastBuilt.req.headers

\* C7: only a valid login completion writes the credential: BeginPlay,
\* Login, GetRequest, a request being dropped and the handling of an invalid
\* completion leave it unchanged.
C7_OnlyValidLoginWrites ==
    [][ /\ (AuthorizationHash' # AuthorizationHash)
            => (lastOp' = "LoginResponse" /\ last'.valid)
        /\ (lastOp' \in {"BeginPlay", "Login", "GetRequest", "Abandon"}
              \/ (lastOp' = "LoginResponse" /\ ~last'.valid))
            => (AuthorizationHash' = AuthorizationHash) ]_vars

C7_Witness ==
    /\ lastOp = "Login"
    /\ Len(requests) = 2
    /\ requests[1].status = "Succeeded"
    /\ requests[2].status = "Sent"
    /\ AuthorizationHash = "abcd-1234"

\* C8: the handler of a dispatched request is invoked at most once; once
\* the transport is done with the request it has been invoked exactly once,
\* unless the request was dropped, and then it was never invoked.
C8_HandlerAtMostOnce ==
    \A i \in 1..Len(requests) :
        /\ requests[i].calls <= 1
        /\ requests[i].outstanding > 0 => requests[i].calls = 0
        /\ requests[i].outstanding = 0 =>
              requests[i].calls = IF requests[i].status = "Abandoned" THEN 0 ELSE 1

C8_Witness ==
    /\ Len(requests) = 2
    /\ requests[1].calls = 1 /\ requests[1].outstanding = 0
    /\ requests[2].calls = 0 /\ requests[2].outstanding = 0
    /\ requests[2].status = "Abandoned"

\* Requests a and b, completed at positions p and q, were in flight at the
\* same time: each was sent before the other completed.
InFlightTogether(p, q) ==
    /\ requests[completions[p].id].sentAfter < q
    /\ requests[completions[q].id].sentAfter < p

\* C9: when two logins were in flight together and both completed valid,
\* and the later of the two completions is the latest valid one, the
\* credential is the hash of that later response, whichever of the two was
\* dispatched first.
C9_LastCompletionWins ==
    \A p, q \in ValidPositions :
        (p < q /\ q = LastValidPosition /\ InFlightTogether(p, q))
            => AuthorizationHash = DecodedHash(completions[q].content)

C9_Witness ==
    /\ Len(completions) = 2
    /\ InFlightTogether(1, 2)
    /\ completions[1].id = 2 /\ completions[1].valid
    /\ completions[1].content = BodyHashExtra
    /\ completions[2].id = 1 /\ completions[2].valid
    /\ completions[2].content = BodyFull
    /\ AuthorizationHash = "abcd-1234"

\* C10: a request keeps the headers it was built with, its Authorization
\* value being the credential at build time, through every later step, a
\* login completion that replaces the credential included.
C10_BuiltHeadersAreSnapshots ==
    [][ \A i \in 1..Len(requests) :
            /\ requests'[i].req = requests[i].req
            /\ requests'[i].hashAtBuild = requests[i].hashAtBuild
            /\ HeaderValues(requests'[i].req, AuthorizationHeader)
                   = {requests[i].hashAtBuild} ]_vars

\* A request still in flight whose Authorization header is not the current
\* credential, right after a login completion replaced the credential.
C10_Witness ==
    /\ lastOp = "LoginResponse"
    /\ last.valid
    /\ \E i \in 1..Len(requests) :
          /\ requests[i].outstanding > 0
          /\ requests[i].status = "Sent"
          /\ HeaderValues(requests[i].req, AuthorizationHeader)
                 = {InitialAuthorizationHash}
          /\ AuthorizationHash = "h2"

\* C11 as stated: the credential is never cleared; in no reachable state is
\* it empty.
C11_CredentialNeverEmpty == AuthorizationHash # ""

\* The body does not fill the login response struct: it does not parse, or
\* one of id, name, hash is absent.
DecodeMismatch(content) ==
    \/ ~content.wellFormed
    \/ \E p \in {"id", "name", "hash"} : ~HasField(content, p)

C13_AbsentFieldsAreDefaults ==
    (last.id # 0 /\ last.valid /\ last.Response.content.wellFormed) =>
        LET c == last.Response.content
        IN  /\ AuthorizationHash =
                   IF HasField(c, "hash") THEN Field(c, "hash").s ELSE ""
            /\ last.log =
                   << IdLog(IF HasField(c, "id") THEN Field(c, "id").n ELSE 0),
                      NameLog(IF HasField(c, "name")
                              THEN Field(c, "name").s ELSE "") >>

\* C14: a struct with every field present, encoded by
\* GetJsonStringFromStruct and decoded from that text by
\* GetStructFromJsonString into a default-constructed struct of its type,
\* comes back equal to itself.
C14_RoundTrip ==
    codec.phase = "decoded" => codec.out = codec.P

C14_Witness ==
    /\ codec.phase = "decoded"
    /\ codec.P = [id |-> 2147483647, name |-> "Batman", hash |-> "h2"]
    /\ codec.out.id = 2147483647 /\ codec.out.hash = "h2"
    /\ Len(codec.text.fields) = 3

FlowOrder == << "Idle", "Building", "Sent", "Validating" >>

\* Request i got a completion, and it was a valid (resp. invalid) one.
CompletedValid(i) ==
    \E k \in 1..Len(completions) : completions[k].id = i /\ completions[k].valid
CompletedInvalid(i) ==
    \E k \in 1..Len(completions) : completions[k].id = i /\ ~completions[k].valid

\* C15: the states a login flow has passed through are a prefix of Idle,
\* Building, Sent, Validating followed by one of Failed and Succeeded and
\* nothing after it; a flow is Succeeded only after Validating a valid
\* completion, and Failed only after Validating an invalid one.
C15_FlowOrder ==
    \A i \in 1..Len(requests) :
        LET t == requests[i].trace
        IN  /\ Len(t) <= 5
            /\ \A k \in 1..Len(t) :
                   IF k <= 4 THEN t[k] = FlowOrder[k]
                   ELSE t[k] \in {"Failed", "Succeeded"}
            /\ requests[i].status \in {"Failed", "Succeeded"} =>
                   /\ Len(t) = 5 /\ t[5] = requests[i].status
                   /\ requests[i].outstanding = 0
            /\ requests[i].status = "Succeeded" =>
                   CompletedValid(i) /\ ~CompletedInvalid(i)
            /\ requests[i].status = "Failed" =>
                   CompletedInvalid(i) /\ ~CompletedValid(i)

C15_Witness ==
    /\ Len(requests) = 2
    /\ requests[1].trace = << "Idle", "Building", "Sent", "Validating", "Failed" >>
    /\ requests[2].trace = << "Idle", "Building", "Sent", "Validating", "Succeeded" >>

\* C16: every request Login built was submitted exactly once, whatever its
\* completion was: the number of submissions equals the number of requests
\* Login built, one for each call of Login that returned, and a request
\* that was only built by GetRequest is never submitted.
C16_OneDispatchPerLogin ==
    /\ \A i \in 1..Len(requests) :
           /\ requests[i].sent = 1
           /\ requests[i].outstanding + requests[i].calls <= 1
    /\ Cardinality({i \in 1..Len(requests) : requests[i].sent >= 1})
           = Len(requests)
    /\ Len(completions) <= Len(requests)

C16_Witness ==
    /\ Len(requests) = 2
    /\ Len(completions) = 2
    /\ requests[1].status = "Failed" /\ requests[1].sent = 1
    /\ requests[2].status = "Failed" /\ requests[2].sent = 1
    /\ last.bWasSuccessful /\ last.Response.present /\ last.Response.code = 500

\* C17: the request the transport got from Login is fully configured: its
\* URL is the base URL followed by "user/login", it has the four headers,
\* the verb POST and the credentials as its JSON body, and LoginResponse is
\* bound to it; a completion is delivered only for a submitted request.
C17_ConfiguredBeforeSend ==
    /\ \A i \in 1..Len(requests) :
           LET q == requests[i].submitted
           IN  /\ requests[i].sent >= 1
               /\ q.url = "http://murk.dev/api/user/login"
               /\ q.verb = "POST"
               /\ FourHeaders(q, requests[i].hashAtBuild)
               /\ q.content.wellFormed
               /\ Len(q.content.fields) = 2
               /\ Field(q.content, "email") =
                      StrField("email", requests[i].credentials.email)
               /\ Field(q.content, "password") =
                      StrField("password", requests[i].credentials.password)
               /\ q.bound = "LoginResponse"
               /\ requests[i].calls <= requests[i].sent
    /\ \A k \in 1..Len(completions) :
           /\ completions[k].id \in 1..Len(requests)
           /\ requests[completions[k].id].sent >= 1

C17_Witness ==
    /\ Len(requests) = 1
    /\ requests[1].status = "Sent" /\ requests[1].outstanding = 1
    /\ requests[1].submitted.bound = "LoginResponse"
    /\ completions = <<>>
    /\ lastBuilt.by = "GetRequest"

\* The body gives no hash: it does not parse, or has no hash field.
NoHashIn(content) == ~content.wellFormed \/ ~HasField(content, "hash")

\* C18: after a valid completion whose body gives no hash, the credential
\* update has run and the credential is the empty string; every request
\* built from then on (until another completion) carries an empty
\* Authorization value.
C18_HashlessLoginClearsCredential ==
    (last.id # 0 /\ last.valid /\ NoHashIn(last.Response.content)) =>
        /\ \E k \in 1..Len(last.steps) : last.steps[k] = "SetAuthorizationHash"
        /\ AuthorizationHash = ""
        /\ lastOp \in {"GetRequest", "Login"} =>
               HeaderValues(lastBuilt.req, AuthorizationHeader) = {""}
        /\ \A i \in 1..Len(requests) :
               requests[i].sentAfter = Len(completions) =>
                   HeaderValues(requests[i].submitted, AuthorizationHeader) = {""}

C18_Witness ==
    /\ last.id # 0 /\ last.valid
    /\ last.Response.content = BodyNoHash
    /\ last.before = "abcd-1234"
    /\ AuthorizationHash = ""
    /\ lastOp = "GetRequest"
    /\ <<AuthorizationHeader, "">> \in lastBuilt.req.headers

\* C19: without authority BeginPlay leaves Http unset, and no request is
\* ever built or dispatched and the credential stays the initial one; with
\* authority it sets Http and dispatches the first login, with its fixed
\* credentials.
C19_BeginPlayNeedsAuthority ==
    /\ ~hasAuthority =>
           /\ Http = "unset"
           /\ requests = <<>>
           /\ completions = <<>>
           /\ lastBuilt = NothingBuilt
           /\ AuthorizationHash = InitialAuthorizationHash
    /\ (begun /\ hasAuthority) =>
           /\ Http = "module"
           /\ Len(requests) >= 1
           /\ requests[1].credentials = BeginPlayCredentials
           /\ requests[1].sent = 1
    /\ ~begun => requests = <<>>

C19_Witness ==
    /\ ~hasAuthority
    /\ begun
    /\ lastOp = "BeginPlay"
    /\ Http = "unset"
    /\ requests = <<>>

====
